---------------------------- MODULE Spec2Model ----------------------------
(***************************************************************************)
(* Model of the streaming tool-call proxy of the ii AI backend             *)
(* (ai/streaming.py, ai/upstream.py, ai/tools.py, ai/server.py).           *)
(*                                                                         *)
(* One logical streaming request is modelled: the Gateway calls            *)
(* StreamHandler.handle_streaming, which opens an upstream stream, reads   *)
(* it line by line, forwards lines downstream, runs buffered tool calls at *)
(* [DONE] and calls itself again with the extended conversation.           *)
(*                                                                         *)
(* Text is a sequence of abstract characters (short strings); its length   *)
(* is the length of the sequence.                                          *)
(***************************************************************************)
EXTENDS Integers, Sequences, FiniteSets, TLC

(***************************************************************************)
(* Bounds of the model and constants of the program.                       *)
(***************************************************************************)
\* Upstream lines (other than [DONE]) read over one logical request.
MaxLines == 2
\* Largest value of II_AI_MAX_TOOL_ITERATIONS explored (0: unset or invalid).
MaxEnv == 1
\* Largest max_iterations argument explored besides the default.
MaxBudget == 2
\* Fragments of one tool call (reassembly taken alone).
MaxFrags == 3
\* Default of handle_streaming's max_iterations parameter.
DefaultMaxIterations == 10
\* Characters per estimated token.
CharsPerToken == 4
\* Longest text the estimator is applied to (estimator taken alone).
MaxTextLen == 40
\* Upstream lines (other than [DONE]) two concurrent requests read together.
MaxParLines == 1

Max(a, b) == IF a >= b THEN a ELSE b

RECURSIVE SumSeq(_)
SumSeq(s) == IF s = <<>> THEN 0 ELSE Head(s) + SumSeq(Tail(s))

IsPrefix(s, t) == Len(s) <= Len(t) /\ SubSeq(t, 1, Len(s)) = s

Last(s) == s[Len(s)]

(***************************************************************************)
(* Usage Estimator.                                                        *)
(***************************************************************************)
\* EstimateTokens that rounds down.
EstimateTokensFloor(n) ==
  IF n = 0 THEN 0 ELSE Max(1, n \div CharsPerToken)

\* StreamHandler._estimate_tokens, applied to a text of n characters.
EstimateTokens(n) ==
  IF n = 0 THEN 0 ELSE Max(1, (n + (CharsPerToken - 1)) \div CharsPerToken)

\* Length of the serialization of one message: grows with every text it holds.
SerLen(m) ==
  1 + Len(m.content) + Len(m.reasoning_content)
    + SumSeq([i \in 1..Len(m.tool_calls) |-> 1 + Len(m.tool_calls[i].arguments)])

\* len(json.dumps(body.get("messages", []))).
JsonLen(ms) == 2 + SumSeq([i \in 1..Len(ms) |-> SerLen(ms[i])])


(***************************************************************************)
(* Upstream lines.  A line is a non-data line, a data line that is not     *)
(* JSON, a JSON chunk, or the [DONE] line.  A chunk may carry a usage      *)
(* object, may lack choices[0] (choices = []), and its delta may carry     *)
(* content, reasoning_content and tool-call fragments.                     *)
(***************************************************************************)
NoText == << >>

Fragment(index, id, name, arguments) ==
  [index |-> index, id |-> id, name |-> name, arguments |-> arguments]

\* A complete call of run_shell_command with {"command": ...} ("k": the member).
FragCall == Fragment(0, "call_a", "run_shell_command", <<"{", "k", "}">>)
\* A call of a tool the executor does not know, without arguments.
FragUnknown == Fragment(1, "call_b", "nope", NoText)
\* A later fragment of index 0 that carries only more argument text.
FragArgs == Fragment(0, "", "", <<"[", "]">>)
\* A fragment of index 1 naming run_shell_command with a JSON array as arguments.
FragArray == Fragment(1, "", "run_shell_command", <<"[", "]">>)

Fragments == {FragCall, FragUnknown, FragArgs, FragArray}

Line(t, content, reasoning, usage, choices, tcs) ==
  [t |-> t, content |-> content, reasoning_content |-> reasoning,
   usage |-> usage, choices |-> choices, tool_calls |-> tcs]

LineOther == Line("other", NoText, NoText, FALSE, FALSE, << >>)
LineBad == Line("bad", NoText, NoText, FALSE, FALSE, << >>)
LineDone == Line("done", NoText, NoText, FALSE, FALSE, << >>)
ChunkContent == Line("chunk", <<"h">>, NoText, FALSE, TRUE, << >>)
ChunkReasoning == Line("chunk", NoText, <<"r">>, FALSE, TRUE, << >>)
\* A chunk with a usage object and an (empty) delta.
ChunkUsage == Line("chunk", NoText, NoText, TRUE, TRUE, << >>)
\* The usage-only final chunk: {"choices": [], "usage": {...}}.
ChunkUsageOnly == Line("chunk", NoText, NoText, TRUE, FALSE, << >>)
ChunkTool(f) == Line("chunk", NoText, NoText, FALSE, TRUE, <<f>>)

Lines ==
  {LineOther, LineBad, ChunkContent, ChunkReasoning, ChunkUsage, ChunkUsageOnly}
    \cup {ChunkTool(f) : f \in Fragments}

\* The usage object an upstream reports.
UpstreamUsage == [prompt_tokens |-> 7, completion_tokens |-> 2, total_tokens |-> 9]

(***************************************************************************)
(* Tool Executor.                                                          *)
(***************************************************************************)
\* json.loads of an accumulated argument string: the value, or a decode error.
JsonLoads(s) ==
  IF s = <<"{", "}">> THEN [ok |-> TRUE, type |-> "object", command |-> FALSE]
  ELSE IF s = <<"{", "k", "}">> THEN [ok |-> TRUE, type |-> "object", command |-> TRUE]
  ELSE IF s = <<"[", "]">> THEN [ok |-> TRUE, type |-> "array", command |-> FALSE]
  ELSE [ok |-> FALSE, type |-> "none", command |-> FALSE]

EmptyObject == [type |-> "object", command |-> FALSE]

\* ParseArgs that passes on what failed to parse.
ParseArgsStrict(s) ==
  LET v == JsonLoads(s) IN [type |-> v.type, command |-> v.command]

\* args of streaming.py:193-196: the parsed value, {} on a decode error.
ParseArgs(s) ==
  LET v == JsonLoads(s)
  IN IF v.ok THEN [type |-> v.type, command |-> v.command] ELSE EmptyObject

Result(raised, success, output, error) ==
  [raised |-> raised, success |-> success, output |-> output, error |-> error]

\* tools._run_shell_command: args.get raises on a value that is no mapping.
RunShellCommand(args) ==
  IF args.type # "object" THEN {Result(TRUE, FALSE, NoText, "AttributeError")}
  ELSE IF ~args.command THEN {Result(FALSE, FALSE, NoText, "missing_command")}
  ELSE {Result(FALSE, TRUE, <<"o", "k">>, "none"),
        Result(FALSE, FALSE, <<"e">>, "exit_code")}

\* tools._get_shell_config: the arguments are not read.
GetShellConfig(args) ==
  {Result(FALSE, TRUE, <<"{", "}">>, "none"),
   Result(FALSE, FALSE, <<"{", "}">>, "not_found")}

\* tools._set_shell_config: args.get raises on a value that is no mapping;
\* an object without key and value is refused.
SetShellConfig(args) ==
  IF args.type # "object" THEN {Result(TRUE, FALSE, NoText, "AttributeError")}
  ELSE {Result(FALSE, FALSE, NoText, "missing_arguments")}

\* The names execute_tool dispatches on (tools.py:72-78).
KnownTools ==
  {"run_shell_command", "get_shell_config", "set_shell_config",
   "switch_to_search_mode"}

\* ExecuteTool that raises for a name it does not know.
ExecuteToolStrict(name, args) ==
  IF name = "run_shell_command" THEN RunShellCommand(args)
  ELSE IF name = "get_shell_config" THEN GetShellConfig(args)
  ELSE IF name = "set_shell_config" THEN SetShellConfig(args)
  ELSE IF name = "switch_to_search_mode" THEN {Result(FALSE, TRUE, <<"s">>, "none")}
  ELSE {Result(TRUE, FALSE, NoText, "KeyError")}

\* tools.execute_tool: the results the call can have.
ExecuteTool(name, args) ==
  IF name = "run_shell_command" THEN RunShellCommand(args)
  ELSE IF name = "get_shell_config" THEN GetShellConfig(args)
  ELSE IF name = "set_shell_config" THEN SetShellConfig(args)
  ELSE IF name = "switch_to_search_mode" THEN {Result(FALSE, TRUE, <<"s">>, "none")}
  ELSE {Result(FALSE, FALSE, NoText, "unknown_tool")}

\* json.dumps(result): the serialization holds the flag, the output and the error.
JsonDumps(r) ==
  <<"{", IF r.success THEN "true" ELSE "false">> \o r.output \o <<r.error, "}">>

(***************************************************************************)
(* ToolCallBuffer: the entries in the order their keys were first seen     *)
(* (a Python dict keeps insertion order).                                  *)
(***************************************************************************)
HasKey(buf, k) == \E i \in 1..Len(buf) : buf[i].key = k

KeyPos(buf, k) == CHOOSE i \in 1..Len(buf) : buf[i].key = k

NewEntry(k) == [key |-> k, id |-> "", name |-> "", args_str |-> NoText]

\* MergeInto with the id taken from every fragment, an empty one included.
MergeIntoOverwriting(e, tc) ==
  [key |-> e.key,
   id |-> tc.id,
   name |-> IF tc.name # "" THEN tc.name ELSE e.name,
   args_str |-> IF tc.arguments # NoText THEN e.args_str \o tc.arguments ELSE e.args_str]

\* MergeInto with the argument text replaced by that of the fragment.
MergeIntoReplacing(e, tc) ==
  [key |-> e.key,
   id |-> IF tc.id # "" THEN tc.id ELSE e.id,
   name |-> IF tc.name # "" THEN tc.name ELSE e.name,
   args_str |-> IF tc.arguments # NoText THEN tc.arguments ELSE e.args_str]

\* streaming.py:373-378: the entry after one fragment was merged into it.
MergeInto(e, tc) ==
  [key |-> e.key,
   id |-> IF tc.id # "" THEN tc.id ELSE e.id,
   name |-> IF tc.name # "" THEN tc.name ELSE e.name,
   args_str |-> IF tc.arguments # NoText THEN e.args_str \o tc.arguments ELSE e.args_str]

\* streaming.py:363-378: one fragment merged into the buffer.
MergeFragment(buf, tc) ==
  LET b == IF HasKey(buf, tc.index) THEN buf ELSE Append(buf, NewEntry(tc.index))
      p == KeyPos(b, tc.index)
  IN [b EXCEPT ![p] = MergeInto(b[p], tc)]

RECURSIVE MergeAll(_, _)
\* streaming.py:361-378: every fragment of delta.tool_calls, in order.
MergeAll(buf, tcs) ==
  IF tcs = << >> THEN buf ELSE MergeAll(MergeFragment(buf, Head(tcs)), Tail(tcs))

(***************************************************************************)
(* Messages and downstream events.                                         *)
(***************************************************************************)
Message(role, content, reasoning, tcs, tcid) ==
  [role |-> role, content |-> content, reasoning_content |-> reasoning,
   tool_calls |-> tcs, tool_call_id |-> tcid]

\* The caller's conversation: [{"role": "user", "content": "hi"}].
UserMessage == Message("user", <<"h", "i">>, NoText, << >>, "")

NoUsage ==
  [set |-> FALSE, prompt_tokens |-> 0, completion_tokens |-> 0,
   total_tokens |-> 0, estimated |-> FALSE]

NoCall == [id |-> "", name |-> "", args |-> EmptyObject]

NoResult == Result(FALSE, FALSE, NoText, "")

\* What one downstream write carries.  frame: the handle_streaming call
\* (1: the outermost) that wrote it; rid: its request_id (-1: none).
Event(kind, frame) ==
  [kind |-> kind, frame |-> frame, rid |-> -1, line |-> LineOther,
   estimated |-> FALSE, prompt_tokens |-> 0, completion_tokens |-> 0,
   total_tokens |-> 0, message |-> "", call |-> NoCall, result |-> NoResult]

RawEvent(line, frame) == [Event("raw", frame) EXCEPT !.line = line]

DoneEvent(frame) == [Event("done", frame) EXCEPT !.line = LineDone]

UsageEvent(p, c, t, est, rid, frame) ==
  [Event("usage", frame) EXCEPT !.prompt_tokens = p, !.completion_tokens = c,
     !.total_tokens = t, !.estimated = est, !.rid = rid]

ErrorEvent(message, rid, frame) ==
  [Event("error", frame) EXCEPT !.message = message, !.rid = rid]

ToolEvent(kind, call, result, frame) ==
  [Event(kind, frame) EXCEPT !.call = call, !.result = result]

ContinuationEvent(rid, frame) == [Event("continuation", frame) EXCEPT !.rid = rid]

(***************************************************************************)
(* UpstreamClient.request_chat_completions (upstream.py:50-74).            *)
(***************************************************************************)
\* What building and opening the request does: a response, HTTPError,
\* URLError, or another exception ("other": the body does not encode or the
\* URL has no scheme at upstream.py:61-62, outside the try; a timeout or a
\* reset while urlopen awaits the response at upstream.py:64).
UrlopenOutcomes == {"response", "HTTPError", "URLError", "other"}

\* upstream.py:63-74: what the caller receives.
RequestChatCompletions(outcome) ==
  CASE outcome = "response" -> "response"
    [] outcome \in {"HTTPError", "URLError"} -> "ProxyError"
    [] OTHER -> outcome

\* No request was made yet.
NoOpen == [outcome |-> "", received |-> ""]

(***************************************************************************)
(* State.                                                                  *)
(***************************************************************************)
VARIABLES
  pc,                    \* "call": handle_streaming is entered; "read": in the
                         \* read loop; "tools": in the loop over the buffer at
                         \* [DONE]; "done": the outermost call has ended
  envMax,                \* II_AI_MAX_TOOL_ITERATIONS as an integer (0: none)
  initBudget,            \* max_iterations of the outermost call
  max_iterations,        \* max_iterations of the current call
  is_first,              \* is_first of the current call
  frame,                 \* depth of the current call (1: the outermost)
  headers_sent,          \* StreamHandler._headers_sent
  headerCalls,           \* calls of send_headers so far
  body,                  \* the request body (messages, tools, tool_choice)
  sent,                  \* the bodies passed to request_chat_completions
  openResp,              \* frames whose upstream response is open
  clock,                 \* the millisecond clock read for request_id
  rids,                  \* request_id of each call that computed one
  tool_call_buffer,
  collected_content,
  collected_reasoning,
  collected_tool_calls,
  last_usage,
  usage_emitted,         \* _last_usage_emit_ts was set in this call
  tool_results,          \* key -> result, of the calls executed in this turn
  pos,                   \* position of the loop over tool_call_buffer
  executed,              \* the calls of execute_tool so far
  out,                   \* what was written downstream, in order
  clientAlive,           \* writes to wfile succeed
  linesRead,             \* upstream lines read so far (other than [DONE])
  ended,                 \* how the logical request ended ("": it has not)
  readLog,               \* the upstream lines read (other than [DONE]), each
                         \* with the call that read it
  lost,                  \* the events whose write failed, in order
  lastOpen,              \* the last call of request_chat_completions: what
                         \* urlopen did and what the caller received
  fragInput,             \* reassembly alone: the fragments of one index
  fragPos,               \* reassembly alone: how many of them were merged
  fineBuf,               \* reassembly alone: the buffer they were merged into
  coarseBuf,             \* reassembly alone: the buffer their unsplit form
                         \* was merged into
  nsPc,                  \* handle_non_streaming: "call": entered; "tools": in
                         \* the loop over tool_calls; "returned": it has
                         \* returned or raised; "replied": the Gateway is done
  nsBody,                \* handle_non_streaming: the request body
  nsFirst,               \* the first upstream response as parsed
  nsSecond,              \* the follow-up response as parsed
  nsPos,                 \* position of the loop over tool_calls
  nsSent,                \* the bodies passed to request_chat_completions
  nsExecuted,            \* the calls of execute_tool
  nsOpen,                \* the upstream responses that are open (1, 2)
  nsReturn,              \* what handle_non_streaming returned or raised
  nsReplies,             \* the HTTP replies the Gateway wrote
  estText,               \* estimator alone: the text
  estValue,              \* estimator alone: its estimate (-1: not computed)
  estLonger,             \* estimator alone: the estimate of the text with
                         \* one more character (-1: not computed)
  active,                \* two requests: the request (1, 2) whose thread
                         \* runs, its state held by the variables above
                         \* (0: one request alone)
  parked                 \* two requests: the state of the other request

vars ==
  <<pc, envMax, initBudget, max_iterations, is_first, frame, headers_sent,
    headerCalls, body, sent, openResp, clock, rids, tool_call_buffer,
    collected_content, collected_reasoning, collected_tool_calls, last_usage,
    usage_emitted, tool_results, pos, executed, out, clientAlive, linesRead,
    ended, readLog, lost, lastOpen, fragInput, fragPos, fineBuf, coarseBuf,
    nsPc, nsBody, nsFirst, nsSecond, nsPos, nsSent, nsExecuted, nsOpen,
    nsReturn, nsReplies, estText, estValue, estLonger, active, parked>>

\* The variables of the reassembly taken alone (SpecFrag).
pure == <<fragInput, fragPos, fineBuf, coarseBuf>>

\* The variables of handle_non_streaming and the Gateway's reply (SpecNs).
nsv ==
  <<nsPc, nsBody, nsFirst, nsSecond, nsPos, nsSent, nsExecuted, nsOpen,
    nsReturn, nsReplies>>

\* The variables of the estimator taken alone (SpecEst).
estv == <<estText, estValue, estLonger>>

\* The variables of two concurrent requests (SpecPar).
parv == <<active, parked>>

\* What no step of handle_streaming changes.
conf == <<envMax, initBudget, pure, nsv, estv, parv>>

locals ==
  <<tool_call_buffer, collected_content, collected_reasoning,
    collected_tool_calls, last_usage, usage_emitted, tool_results, pos>>

\* The budgets handle_streaming is called with: the Gateway's default, and
\* small ones that a direct caller passes.
InitBudgets == (0..MaxBudget) \cup {DefaultMaxIterations}

\* A StreamHandler as the Gateway constructs it (server.py:580), before
\* handle_streaming has done anything with the body it is given.
FreshHandler ==
  /\ max_iterations = initBudget
  /\ is_first = TRUE
  /\ frame = 1
  /\ headers_sent = FALSE
  /\ headerCalls = 0
  /\ sent = << >>
  /\ openResp = {}
  /\ clock = 0
  /\ rids = << >>
  /\ tool_call_buffer = << >>
  /\ collected_content = NoText
  /\ collected_reasoning = NoText
  /\ collected_tool_calls = << >>
  /\ last_usage = NoUsage
  /\ usage_emitted = FALSE
  /\ tool_results = << >>
  /\ pos = 0
  /\ executed = << >>
  /\ out = << >>
  /\ clientAlive = TRUE
  /\ linesRead = 0
  /\ ended = ""
  /\ readLog = << >>
  /\ lost = << >>
  /\ lastOpen = NoOpen

\* The handler and a body that names no tools and no tool_choice.
Fresh ==
  /\ FreshHandler
  /\ body = [messages |-> <<UserMessage>>, tools |-> "none", tool_choice |-> "none"]

\* A response that was not received.
NoResponse == [choices |-> "", message |-> Message("", NoText, NoText, << >>, ""),
               error |-> FALSE]

NoReturn == [kind |-> "", response |-> NoResponse, message |-> ""]

\* No non-streaming request is being served.
NsIdle ==
  /\ nsPc = "idle"
  /\ nsBody = [messages |-> << >>, tools |-> "none", tool_choice |-> "none"]
  /\ nsFirst = NoResponse
  /\ nsSecond = NoResponse
  /\ nsPos = 0
  /\ nsSent = << >>
  /\ nsExecuted = << >>
  /\ nsOpen = {}
  /\ nsReturn = NoReturn
  /\ nsReplies = << >>

\* No text is being estimated.
EstIdle ==
  /\ estText = NoText
  /\ estValue = -1
  /\ estLonger = -1

\* One request alone.
ParIdle ==
  /\ active = 0
  /\ parked = << >>

Init ==
  /\ pc = "call"
  /\ envMax \in 0..MaxEnv
  /\ initBudget \in InitBudgets
  /\ envMax > 0 => initBudget = DefaultMaxIterations
  /\ Fresh
  /\ fragInput = << >>
  /\ fragPos = 0
  /\ fineBuf = << >>
  /\ coarseBuf = << >>
  /\ NsIdle
  /\ EstIdle
  /\ ParIdle

(***************************************************************************)
(* StreamHandler._write and the events built on it.                        *)
(***************************************************************************)
\* streaming.py:32-39: the bytes reach the client unless the pipe is broken.
Write(o, ev) == IF clientAlive THEN Append(o, ev) ELSE o

RECURSIVE WriteAll(_, _)
WriteAll(o, evs) ==
  IF evs = << >> THEN o ELSE WriteAll(Write(o, Head(evs)), Tail(evs))

\* The events whose write failed: _write returns False (streaming.py:36-39)
\* and nothing reaches the client.
Lose(l, ev) == IF clientAlive THEN l ELSE Append(l, ev)

LoseAll(l, evs) == IF clientAlive THEN l ELSE l \o evs

\* The usage event of streaming.py:81-94 and 116-130: the prompt alone.
PromptUsageEvent(ms, rid, fr) ==
  LET p == EstimateTokens(JsonLen(ms)) IN UsageEvent(p, 0, p, TRUE, rid, fr)

\* The event _maybe_emit_usage_estimate sends (streaming.py:160-171).  The
\* prompt was measured when the turn began: sent[frame] is that body.
EstimateEvent(reasoning, content) ==
  LET p == EstimateTokens(JsonLen(sent[frame].messages))
      c == EstimateTokens(Len(reasoning \o content))
  IN UsageEvent(p, c, p + c, TRUE, rids[frame], frame)

\* Emits without the test of last_usage.
EmitsIgnoringUsage(usage, force, elapsed) == force \/ elapsed

\* streaming.py:152-172: whether _maybe_emit_usage_estimate sends its event.
\* elapsed: 0.75 s have passed since the last one.
Emits(usage, force, elapsed) == ~usage.set /\ (force \/ elapsed)

(***************************************************************************)
(* handle_streaming: entry (streaming.py:71-134).                          *)
(***************************************************************************)
\* streaming.py:71-77: the override replaces the argument in every call.
EffectiveMax(env, arg) == IF env > 0 THEN env ELSE arg

\* InjectTools that looks only at whether the body has a tools key.
InjectToolsAbsentOnly(b) ==
  IF b.tools = "none" THEN [b EXCEPT !.tools = "default", !.tool_choice = "auto"]
  ELSE b

\* streaming.py:107-110, 400-403: tools is "none" for a body without the key
\* and "empty" for one whose tools are falsy (an empty list).
InjectTools(b) ==
  IF b.tools \in {"none", "empty"}
  THEN [b EXCEPT !.tools = "default", !.tool_choice = "auto"]
  ELSE b

\* The turn ends and with it the logical request: every enclosing call
\* returns at streaming.py:296, its finally closing a closed response.
Finish(reason) ==
  /\ pc' = "done"
  /\ ended' = reason
  /\ openResp' = openResp \ {frame}

\* ExhaustedEvents without the error event.
ExhaustedEventsNoError(ms, fr) == <<PromptUsageEvent(ms, -1, fr), DoneEvent(fr)>>

\* streaming.py:81-97: what is written when the budget is exhausted.
ExhaustedEvents(ms, fr) ==
  <<PromptUsageEvent(ms, -1, fr), ErrorEvent("max_iterations", -1, fr), DoneEvent(fr)>>

\* UpstreamErrorEvents without the [DONE] line.
UpstreamErrorEventsNoDone(ms, rid, fr) ==
  <<PromptUsageEvent(ms, rid, fr), ErrorEvent("upstream", -1, fr)>>

\* streaming.py:116-133: what is written when the upstream request failed.
UpstreamErrorEvents(ms, rid, fr) ==
  <<PromptUsageEvent(ms, rid, fr), ErrorEvent("upstream", -1, fr), DoneEvent(fr)>>

\* streaming.py:79-98: the budget is exhausted.
EnterExhausted ==
  /\ pc = "call"
  /\ EffectiveMax(envMax, max_iterations) <= 0
  /\ max_iterations' = EffectiveMax(envMax, max_iterations)
  /\ out' = WriteAll(out, ExhaustedEvents(body.messages, frame))
  /\ lost' = LoseAll(lost, ExhaustedEvents(body.messages, frame))
  /\ Finish("budget")
  /\ UNCHANGED <<conf, is_first, frame, headers_sent, headerCalls, body, sent, lastOpen,
                 clock, rids, locals, executed, clientAlive, linesRead, readLog>>

\* SendsHeaders for every call, the continuations included.
SendsHeadersEveryCall(first, already) == TRUE

\* streaming.py:103: the call sends the HTTP headers (send_headers is always
\* given, server.py:580).
SendsHeaders(first, already) == first /\ ~already

\* streaming.py:100-113: request_id, headers, tools, and the upstream request,
\* which the caller sees end as received.
Request(received) ==
  /\ pc = "call"
  /\ \E outcome \in UrlopenOutcomes :
       /\ RequestChatCompletions(outcome) = received
       /\ lastOpen' = [outcome |-> outcome, received |-> received]
  /\ EffectiveMax(envMax, max_iterations) > 0
  /\ max_iterations' = EffectiveMax(envMax, max_iterations)
  /\ rids' = Append(rids, clock)
  /\ headers_sent' = (headers_sent \/ SendsHeaders(is_first, headers_sent))
  /\ headerCalls' = IF SendsHeaders(is_first, headers_sent)
                     THEN headerCalls + 1 ELSE headerCalls
  /\ body' = InjectTools(body)
  /\ sent' = Append(sent, body')
  /\ UNCHANGED <<conf, is_first, frame, clock, executed, clientAlive, linesRead, readLog>>

\* EnterOpen with the buffer of the turn before kept.
EnterOpenKeepingBuffer ==
  /\ Request("response")
  /\ openResp' = openResp \cup {frame}
  /\ collected_content' = NoText
  /\ collected_reasoning' = NoText
  /\ collected_tool_calls' = << >>
  /\ last_usage' = NoUsage
  /\ usage_emitted' = FALSE
  /\ UNCHANGED <<tool_call_buffer, tool_results, pos, out, lost, ended>>
  /\ pc' = "read"

\* streaming.py:113, 136-150: the stream is open; the turn's buffers are new.
EnterOpen ==
  /\ Request("response")
  /\ openResp' = openResp \cup {frame}
  /\ tool_call_buffer' = << >>
  /\ collected_content' = NoText
  /\ collected_reasoning' = NoText
  /\ collected_tool_calls' = << >>
  /\ last_usage' = NoUsage
  /\ usage_emitted' = FALSE
  /\ UNCHANGED <<tool_results, pos, out, lost, ended>>
  /\ pc' = "read"

\* streaming.py:114-134: request_chat_completions raised ProxyError.
EnterProxyError ==
  /\ Request("ProxyError")
  /\ out' = WriteAll(out, UpstreamErrorEvents(body'.messages, clock, frame))
  /\ lost' = LoseAll(lost, UpstreamErrorEvents(body'.messages, clock, frame))
  /\ Finish("upstream_error")
  /\ UNCHANGED locals

\* upstream.py:65-74: urlopen raised something that is neither HTTPError nor
\* URLError (a timeout or a reset while the response is awaited).  The
\* outermost call lets it through; a continuation's caller catches it at
\* streaming.py:386-388.
EnterRaises ==
  /\ Request("other")
  /\ out' = IF frame = 1 THEN out
            ELSE Write(out, ErrorEvent("streaming", rids[frame - 1], frame - 1))
  /\ lost' = IF frame = 1 THEN lost
             ELSE Lose(lost, ErrorEvent("streaming", rids[frame - 1], frame - 1))
  /\ Finish(IF frame = 1 THEN "escaped" ELSE "exception")
  /\ UNCHANGED locals

(***************************************************************************)
(* handle_streaming: the read loop (streaming.py:174-393).                 *)
(***************************************************************************)
\* Forward that passes on only the lines it could parse.
ForwardParsed(o, line) ==
  /\ out' = IF line.t = "bad" THEN o ELSE Write(o, RawEvent(line, frame))
  /\ IF clientAlive
     THEN pc' = "read" /\ ended' = "" /\ openResp' = openResp
     ELSE Finish("disconnect")

\* Forward that does not look at the result of the write.
ForwardUnchecked(o, line) ==
  /\ out' = Write(o, RawEvent(line, frame))
  /\ pc' = "read" /\ ended' = "" /\ openResp' = openResp

\* streaming.py:382-384: the line is forwarded; a failed write ends the loop.
Forward(o, line) ==
  /\ out' = Write(o, RawEvent(line, frame))
  /\ IF clientAlive
     THEN pc' = "read" /\ ended' = "" /\ openResp' = openResp
     ELSE Finish("disconnect")

Reading == pc = "read" /\ linesRead < MaxLines

\* streaming.py:176-178: end of file.
ReadEOF ==
  /\ pc = "read"
  /\ Finish("eof")
  /\ UNCHANGED <<conf, max_iterations, is_first, frame, headers_sent, headerCalls,
                 body, sent, lastOpen, clock, rids, locals, executed, out, lost, clientAlive,
                 linesRead, readLog>>

\* streaming.py:176, 386-388: readline raised (a timeout, a reset).
ReadRaises ==
  /\ pc = "read"
  /\ out' = Write(out, ErrorEvent("streaming", rids[frame], frame))
  /\ lost' = Lose(lost, ErrorEvent("streaming", rids[frame], frame))
  /\ Finish("exception")
  /\ UNCHANGED <<conf, max_iterations, is_first, frame, headers_sent, headerCalls,
                 body, sent, lastOpen, clock, rids, locals, executed, clientAlive, linesRead, readLog>>

\* ReadOther with a payload that is not JSON treated as a failure of the
\* stream.
ReadOtherStrict ==
  /\ Reading
  /\ \E line \in {l \in Lines : l.t \in {"other", "bad"}} :
       /\ IF line.t = "bad"
          THEN /\ out' = Write(out, ErrorEvent("streaming", rids[frame], frame))
               /\ Finish("exception")
          ELSE Forward(out, line)
       /\ lost' = Lose(lost, RawEvent(line, frame))
       /\ readLog' = Append(readLog, [line |-> line, frame |-> frame])
  /\ linesRead' = linesRead + 1
  /\ UNCHANGED <<conf, max_iterations, is_first, frame, headers_sent, headerCalls,
                 body, sent, lastOpen, clock, rids, locals, executed, clientAlive>>

\* streaming.py:183, 336-337, 379-384: a line that is no data line, or whose
\* payload is not JSON.
ReadOther ==
  /\ Reading
  /\ \E line \in {l \in Lines : l.t \in {"other", "bad"}} :
       /\ Forward(out, line)
       /\ lost' = Lose(lost, RawEvent(line, frame))
       /\ readLog' = Append(readLog, [line |-> line, frame |-> frame])
  /\ linesRead' = linesRead + 1
  /\ UNCHANGED <<conf, max_iterations, is_first, frame, headers_sent, headerCalls,
                 body, sent, lastOpen, clock, rids, locals, executed, clientAlive>>

\* streaming.py:339-346.
CaptureUsage(line, usage) ==
  IF line.usage
  THEN [set |-> TRUE, prompt_tokens |-> UpstreamUsage.prompt_tokens,
        completion_tokens |-> UpstreamUsage.completion_tokens,
        total_tokens |-> UpstreamUsage.total_tokens, estimated |-> FALSE]
  ELSE usage

\* streaming.py:336-384: a chunk with choices[0].
ReadChunk ==
  /\ Reading
  /\ \E line \in {l \in Lines : l.t = "chunk" /\ l.choices}, elapsed \in BOOLEAN :
       LET usage == CaptureUsage(line, last_usage)
           content == collected_content \o line.content
           reasoning == collected_reasoning \o line.reasoning_content
           emits == Emits(usage, FALSE, elapsed \/ ~usage_emitted)
       IN /\ last_usage' = usage
          /\ collected_content' = content
          /\ collected_reasoning' = reasoning
          /\ usage_emitted' = (usage_emitted \/ emits)
          /\ tool_call_buffer' = MergeAll(tool_call_buffer, line.tool_calls)
          /\ Forward(IF emits THEN Write(out, EstimateEvent(reasoning, content))
                     ELSE out, line)
          /\ lost' = LoseAll(lost, (IF emits
                                    THEN <<EstimateEvent(reasoning, content)>>
                                    ELSE << >>) \o <<RawEvent(line, frame)>>)
          /\ readLog' = Append(readLog, [line |-> line, frame |-> frame])
  /\ linesRead' = linesRead + 1
  /\ UNCHANGED <<conf, max_iterations, is_first, frame, headers_sent, headerCalls,
                 body, sent, lastOpen, clock, rids, collected_tool_calls, tool_results, pos,
                 executed, clientAlive>>

\* streaming.py:339-347, 386-388: choices is empty, choices[0] raises.
ReadChunkRaises ==
  /\ Reading
  /\ \E line \in {l \in Lines : l.t = "chunk" /\ ~l.choices} :
       /\ last_usage' = CaptureUsage(line, last_usage)
       /\ readLog' = Append(readLog, [line |-> line, frame |-> frame])
  /\ out' = Write(out, ErrorEvent("streaming", rids[frame], frame))
  /\ lost' = Lose(lost, ErrorEvent("streaming", rids[frame], frame))
  /\ Finish("exception")
  /\ linesRead' = linesRead + 1
  /\ UNCHANGED <<conf, max_iterations, is_first, frame, headers_sent, headerCalls,
                 body, sent, lastOpen, clock, rids, tool_call_buffer, collected_content,
                 collected_reasoning, collected_tool_calls, usage_emitted,
                 tool_results, pos, executed, clientAlive>>

\* FinalUsage that estimates whether or not the upstream reported usage.
FinalUsageEstimating(usage, ms, reasoning, content) ==
  LET p == EstimateTokens(JsonLen(ms))
      c == EstimateTokens(Len(reasoning \o content))
  IN [set |-> TRUE, prompt_tokens |-> p, completion_tokens |-> c,
      total_tokens |-> p + c, estimated |-> TRUE]

\* streaming.py:305-318: the usage the final event reports.
FinalUsage(usage, ms, reasoning, content) ==
  IF usage.set THEN usage
  ELSE LET p == EstimateTokens(JsonLen(ms))
           c == EstimateTokens(Len(reasoning \o content))
       IN [set |-> TRUE, prompt_tokens |-> p, completion_tokens |-> c,
           total_tokens |-> p + c, estimated |-> TRUE]

\* streaming.py:185, 302-334: [DONE] with an empty buffer.
ReadDoneFinal ==
  /\ pc = "read"
  /\ tool_call_buffer = << >>
  /\ LET u == FinalUsage(last_usage, body.messages, collected_reasoning,
                         collected_content)
         evs == <<UsageEvent(u.prompt_tokens, u.completion_tokens,
                             u.total_tokens, u.estimated, rids[frame], frame),
                  DoneEvent(frame)>>
     IN /\ last_usage' = u
        /\ out' = WriteAll(out, evs)
        /\ lost' = LoseAll(lost, evs)
  /\ Finish("complete")
  /\ UNCHANGED <<conf, max_iterations, is_first, frame, headers_sent, headerCalls,
                 body, sent, lastOpen, clock, rids, tool_call_buffer, collected_content,
                 collected_reasoning, collected_tool_calls, usage_emitted,
                 tool_results, pos, executed, clientAlive, linesRead, readLog>>

\* ReadDoneTools with the [DONE] line forwarded.
ReadDoneToolsForwarding ==
  /\ pc = "read"
  /\ tool_call_buffer # << >>
  /\ pc' = "tools"
  /\ pos' = 1
  /\ tool_results' = << >>
  /\ out' = Write(out, DoneEvent(frame))
  /\ lost' = Lose(lost, DoneEvent(frame))
  /\ UNCHANGED <<conf, max_iterations, is_first, frame, headers_sent, headerCalls,
                 body, sent, lastOpen, openResp, clock, rids, tool_call_buffer,
                 collected_content, collected_reasoning, collected_tool_calls,
                 last_usage, usage_emitted, executed, clientAlive, linesRead, readLog,
                 ended>>

\* streaming.py:185-189: [DONE] with buffered tool calls.
ReadDoneTools ==
  /\ pc = "read"
  /\ tool_call_buffer # << >>
  /\ pc' = "tools"
  /\ pos' = 1
  /\ tool_results' = << >>
  /\ UNCHANGED <<conf, max_iterations, is_first, frame, headers_sent, headerCalls,
                 body, sent, lastOpen, openResp, clock, rids, tool_call_buffer,
                 collected_content, collected_reasoning, collected_tool_calls,
                 last_usage, usage_emitted, executed, out, lost, clientAlive, linesRead, readLog,
                 ended>>

(***************************************************************************)
(* handle_streaming: the buffered tool calls at [DONE]                     *)
(* (streaming.py:187-296).                                                 *)
(***************************************************************************)
Dispatching == pc = "tools" /\ pos <= Len(tool_call_buffer)

\* The tool call events report (streaming.py:210-214, 228-232).
CallOf(e) == [id |-> e.id, name |-> e.name, args |-> ParseArgs(e.args_str)]

\* ToolCallOf without the id of the call.
ToolCallOfAnonymous(e) == [id |-> "", name |-> e.name, arguments |-> e.args_str]

\* The entry of collected_tool_calls (streaming.py:198-205).
ToolCallOf(e) == [id |-> e.id, name |-> e.name, arguments |-> e.args_str]

\* streaming.py:216-219, 235-238: the forced estimate around a tool call.
ForcedEstimate ==
  IF Emits(last_usage, TRUE, TRUE)
  THEN <<EstimateEvent(collected_reasoning, collected_content)>>
  ELSE << >>

\* The events sent up to the call of execute_tool (streaming.py:207-219).
BeforeToolEvents(e) ==
  <<ToolEvent("tool_execution", CallOf(e), NoResult, frame)>> \o ForcedEstimate

\* AfterToolEvents without the tool_result event.
AfterToolEventsSilent(e, r) == ForcedEstimate

\* The events sent after it returned (streaming.py:225-238).
AfterToolEvents(e, r) ==
  <<ToolEvent("tool_result", CallOf(e), r, frame)>> \o ForcedEstimate

\* What is written up to the call of execute_tool: no write's result is
\* looked at.
BeforeTool(o, e) == WriteAll(o, BeforeToolEvents(e))

\* What is written after it returned.
AfterTool(o, e, r) == WriteAll(o, AfterToolEvents(e, r))

Invocation(e) == [name |-> e.name, args |-> ParseArgs(e.args_str), id |-> e.id,
                  key |-> e.key, frame |-> frame]

\* streaming.py:191-238: one buffered call with a name is executed.
ExecTool ==
  /\ Dispatching
  /\ LET e == tool_call_buffer[pos]
     IN /\ e.name # ""
        /\ \E r \in {x \in ExecuteTool(e.name, ParseArgs(e.args_str)) : ~x.raised} :
             /\ tool_results' = (e.key :> r) @@ tool_results
             /\ out' = AfterTool(BeforeTool(out, e), e, r)
             /\ lost' = LoseAll(lost, BeforeToolEvents(e) \o AfterToolEvents(e, r))
        /\ collected_tool_calls' = Append(collected_tool_calls, ToolCallOf(e))
        /\ executed' = Append(executed, Invocation(e))
  /\ usage_emitted' = (usage_emitted \/ ~last_usage.set)
  /\ pos' = pos + 1
  /\ UNCHANGED <<pc, conf, max_iterations, is_first, frame, headers_sent,
                 headerCalls, body, sent, lastOpen, openResp, clock, rids, tool_call_buffer,
                 collected_content, collected_reasoning, last_usage, clientAlive,
                 linesRead, readLog, ended>>

\* streaming.py:222, 386-388: execute_tool raised.
ExecToolRaises ==
  /\ Dispatching
  /\ LET e == tool_call_buffer[pos]
     IN /\ e.name # ""
        /\ \E r \in ExecuteTool(e.name, ParseArgs(e.args_str)) : r.raised
        /\ out' = Write(BeforeTool(out, e), ErrorEvent("streaming", rids[frame], frame))
        /\ lost' = LoseAll(lost, Append(BeforeToolEvents(e),
                                        ErrorEvent("streaming", rids[frame], frame)))
        /\ collected_tool_calls' = Append(collected_tool_calls, ToolCallOf(e))
        /\ executed' = Append(executed, Invocation(e))
  /\ usage_emitted' = (usage_emitted \/ ~last_usage.set)
  /\ Finish("exception")
  /\ UNCHANGED <<conf, max_iterations, is_first, frame, headers_sent, headerCalls,
                 body, sent, lastOpen, clock, rids, tool_call_buffer, collected_content,
                 collected_reasoning, last_usage, tool_results, pos, clientAlive,
                 linesRead, readLog>>

\* streaming.py:191-192: an entry without a name is passed over.
SkipUnnamed ==
  /\ Dispatching
  /\ tool_call_buffer[pos].name = ""
  /\ pos' = pos + 1
  /\ UNCHANGED <<pc, conf, max_iterations, is_first, frame, headers_sent,
                 headerCalls, body, sent, lastOpen, openResp, clock, rids, tool_call_buffer,
                 collected_content, collected_reasoning, collected_tool_calls,
                 last_usage, usage_emitted, tool_results, executed, out, lost,
                 clientAlive, linesRead, readLog, ended>>

\* ToolContent that is the output whatever the outcome.
ToolContentOutputOnly(r) == r.output

\* streaming.py:255.
ToolContent(r) == IF r.success THEN r.output ELSE JsonDumps(r)

RECURSIVE ToolMessages(_, _)
\* streaming.py:252-260: one tool message per executed call, in buffer order.
ToolMessages(buf, results) ==
  IF buf = << >> THEN << >>
  ELSE LET e == Head(buf)
       IN (IF e.name # "" /\ e.key \in DOMAIN results
           THEN <<Message("tool", ToolContent(results[e.key]), NoText, << >>, e.id)>>
           ELSE << >>) \o ToolMessages(Tail(buf), results)

\* streaming.py:244-249.
AssistantMessage(reasoning, content, tcs) ==
  Message("assistant", content, reasoning, tcs, "")

\* FollowUp built on a new list instead of the body's.
FollowUpFresh(ms, reasoning, content, tcs, buf, results) ==
  <<AssistantMessage(reasoning, content, tcs)>> \o ToolMessages(buf, results)

\* streaming.py:241-263: the conversation of the follow-up request.
FollowUp(ms, reasoning, content, tcs, buf, results) ==
  (ms \o <<AssistantMessage(reasoning, content, tcs)>>) \o ToolMessages(buf, results)

\* CloseResp that leaves the response open.
CloseRespSkipped(open, fr) == open

\* streaming.py:289-292: the response of the finished turn is closed.
CloseResp(open, fr) == open \ {fr}

\* streaming.py:295: the budget passed to the recursive call.
NextBudget(n) == n - 1

\* streaming.py:240-296: the conversation is extended, the response closed,
\* and handle_streaming calls itself.
Continue ==
  /\ pc = "tools"
  /\ pos > Len(tool_call_buffer)
  /\ body' = [body EXCEPT !.messages =
                FollowUp(body.messages, collected_reasoning, collected_content,
                         collected_tool_calls, tool_call_buffer, tool_results)]
  /\ LET evs == <<ContinuationEvent(rids[frame], frame)>> \o
                  (IF ~last_usage.set
                   THEN <<PromptUsageEvent(body'.messages, rids[frame], frame)>>
                   ELSE << >>)
     IN out' = WriteAll(out, evs) /\ lost' = LoseAll(lost, evs)
  /\ openResp' = CloseResp(openResp, frame)
  /\ pc' = "call"
  /\ frame' = frame + 1
  /\ is_first' = FALSE
  /\ max_iterations' = NextBudget(max_iterations)
  /\ \E tick \in {0, 1} : clock' = clock + tick
  /\ UNCHANGED <<conf, headers_sent, headerCalls, sent, lastOpen, rids, locals, executed,
                 clientAlive, linesRead, readLog, ended>>

\* The downstream client goes away: from now on writes fail (streaming.py:38).
Disconnect ==
  /\ pc # "done"
  /\ clientAlive
  /\ clientAlive' = FALSE
  /\ UNCHANGED <<pc, conf, max_iterations, is_first, frame, headers_sent,
                 headerCalls, body, sent, lastOpen, openResp, clock, rids, locals, executed,
                 out, lost, linesRead, readLog, ended>>

Next ==
  \/ EnterExhausted
  \/ EnterOpen
  \/ EnterProxyError
  \/ EnterRaises
  \/ ReadEOF
  \/ ReadRaises
  \/ ReadOther
  \/ ReadChunk
  \/ ReadChunkRaises
  \/ ReadDoneFinal
  \/ ReadDoneTools
  \/ ExecTool
  \/ ExecToolRaises
  \/ SkipUnnamed
  \/ Continue
  \/ Disconnect

Spec == Init /\ [][Next]_vars

(***************************************************************************)
(* The reassembly of one tool call taken alone (streaming.py:360-378):     *)
(* the fragments of one index are merged one by one into a buffer that may *)
(* already hold another index's entry, and so is their unsplit form: one   *)
(* fragment that carries the whole argument string and the last non-empty  *)
(* id and name.                                                            *)
(***************************************************************************)
\* The fragments of index 0 an upstream may send.
FragAlphabet ==
  {Fragment(0, id, name, arguments) :
     id \in {"", "a", "b"}, name \in {"", "f"},
     arguments \in {NoText, <<"x">>, <<"y">>}}

RECURSIVE SeqsUpTo(_, _)
\* The sequences over S of length 1..n.
SeqsUpTo(S, n) ==
  IF n = 0 THEN {}
  ELSE LET shorter == SeqsUpTo(S, n - 1)
       IN {<<x>> : x \in S} \cup shorter
            \cup {Append(q, x) : q \in shorter, x \in S}

RECURSIVE ConcatArguments(_)
\* The argument substrings in arrival order, as one string.
ConcatArguments(frs) ==
  IF frs = << >> THEN NoText
  ELSE Head(frs).arguments \o ConcatArguments(Tail(frs))

RECURSIVE LastNonEmpty(_)
\* The last string of a sequence that is not empty ("": there is none).
LastNonEmpty(strs) ==
  IF strs = << >> THEN ""
  ELSE IF Last(strs) # "" THEN Last(strs)
  ELSE LastNonEmpty(SubSeq(strs, 1, Len(strs) - 1))

\* The fragments as one fragment.
Unsplit(frs) ==
  Fragment(frs[1].index,
           LastNonEmpty([i \in 1..Len(frs) |-> frs[i].id]),
           LastNonEmpty([i \in 1..Len(frs) |-> frs[i].name]),
           ConcatArguments(frs))

\* An entry of another index that the buffer may hold already.
OtherEntry == MergeInto(NewEntry(1), FragUnknown)

InitFrag ==
  /\ pc = "frag"
  /\ envMax = 0
  /\ initBudget = DefaultMaxIterations
  /\ Fresh
  /\ fragInput \in SeqsUpTo(FragAlphabet, MaxFrags)
  /\ fragPos = 0
  /\ fineBuf \in {<< >>, <<OtherEntry>>}
  /\ coarseBuf = fineBuf
  /\ NsIdle
  /\ EstIdle
  /\ ParIdle

main ==
  <<pc, envMax, initBudget, max_iterations, is_first, frame, headers_sent,
    headerCalls, body, sent, openResp, clock, rids, locals, executed, out,
    clientAlive, linesRead, ended, readLog, lost, lastOpen>>

\* The next fragment arrives and is merged.
MergeFine ==
  /\ pc = "frag"
  /\ fragPos < Len(fragInput)
  /\ fineBuf' = MergeAll(fineBuf, <<fragInput[fragPos + 1]>>)
  /\ fragPos' = fragPos + 1
  /\ UNCHANGED <<main, nsv, estv, parv, fragInput, coarseBuf>>

\* The unsplit form is merged into the other buffer.
MergeCoarse ==
  /\ pc = "frag"
  /\ fragPos = Len(fragInput)
  /\ coarseBuf' = MergeAll(coarseBuf, <<Unsplit(fragInput)>>)
  /\ fragPos' = fragPos + 1
  /\ UNCHANGED <<main, nsv, estv, parv, fragInput, fineBuf>>

NextFrag ==
  \/ MergeFine
  \/ MergeCoarse

SpecFrag == InitFrag /\ [][NextFrag]_vars

(***************************************************************************)
(* StreamHandler.handle_non_streaming (streaming.py:395-451) and the       *)
(* Gateway's reply to a non-streaming request (server.py:584-597).         *)
(***************************************************************************)
\* A parsed upstream response.  choices: "one" (choices[0] exists), "empty"
\* (choices = []), "absent" (no such key); error: it has an "error" key.
NsResponse(choices, content, tcs, error) ==
  [choices |-> choices, message |-> Message("assistant", content, NoText, tcs, ""),
   error |-> error]

NsCall(id, name, arguments) == [id |-> id, name |-> name, arguments |-> arguments]

CallShell == NsCall("call_a", "run_shell_command", <<"{", "k", "}">>)
CallUnknown == NsCall("call_b", "nope", NoText)
\* run_shell_command with a JSON array as arguments.
CallArray == NsCall("call_c", "run_shell_command", <<"[", "]">>)

NsToolCallLists == {<<CallShell>>, <<CallUnknown, CallShell>>, <<CallShell, CallArray>>}

RespPlain == NsResponse("one", <<"h">>, << >>, FALSE)
RespEmptyChoices == NsResponse("empty", NoText, << >>, FALSE)
\* A body such as {"error": {...}}, received with status 200.
RespErrorBody == NsResponse("absent", NoText, << >>, TRUE)
RespTools(tcs) == NsResponse("one", NoText, tcs, FALSE)

NsResponses ==
  {RespPlain, RespEmptyChoices, RespErrorBody} \cup {RespTools(l) : l \in NsToolCallLists}

\* resp.read() and json.loads: the body is parsed, the read raises, or the
\* body is no JSON.
NsReadOutcomes == {"ok", "read_fails", "bad_json"}

Returned(resp) == [kind |-> "value", response |-> resp, message |-> ""]
ReturnedError(msg) == [kind |-> "error", response |-> NoResponse, message |-> msg]
Raised(msg) == [kind |-> "raised", response |-> NoResponse, message |-> msg]

\* streaming.py:400-407: tools are injected and the first request is made.
NsRequest(received) ==
  /\ nsPc = "call"
  /\ nsBody' = InjectTools(nsBody)
  /\ nsSent' = Append(nsSent, nsBody')
  /\ \E outcome \in UrlopenOutcomes : RequestChatCompletions(outcome) = received
  /\ nsOpen' = IF received = "response" THEN nsOpen \cup {1} ELSE nsOpen
  /\ UNCHANGED <<main, pure, estv, parv, nsSecond, nsPos, nsExecuted, nsReplies>>

\* streaming.py:409-410: ProxyError.
NsFirstProxyError ==
  /\ NsRequest("ProxyError")
  /\ nsReturn' = ReturnedError("upstream")
  /\ nsPc' = "returned"
  /\ UNCHANGED nsFirst

\* streaming.py:411-412: any other exception of the request, the read or
\* the parse.
NsFirstFails ==
  /\ \E received \in {"other", "response"} :
       /\ NsRequest(received)
       /\ received = "response" => \E rd \in NsReadOutcomes : rd # "ok"
  /\ nsReturn' = ReturnedError("request_failed")
  /\ nsPc' = "returned"
  /\ UNCHANGED nsFirst

\* streaming.py:415: choices = [] has no element 0; the IndexError is raised
\* outside every try.
NsFirstRaises ==
  /\ NsRequest("response")
  /\ \E resp \in {r \in NsResponses : r.choices = "empty"} : nsFirst' = resp
  /\ nsReturn' = Raised("IndexError")
  /\ nsPc' = "returned"

\* streaming.py:415-418, 451: no tool calls, the response is returned.
NsFirstPlain ==
  /\ NsRequest("response")
  /\ \E resp \in {r \in NsResponses :
                   r.choices # "empty" /\ r.message.tool_calls = << >>} :
       /\ nsFirst' = resp
       /\ nsReturn' = Returned(resp)
  /\ nsPc' = "returned"

\* streaming.py:415-421: tool calls; the message is appended to the list the
\* body holds.
NsFirstTools ==
  /\ nsPc = "call"
  /\ \E outcome \in UrlopenOutcomes : RequestChatCompletions(outcome) = "response"
  /\ \E resp \in {r \in NsResponses :
                   r.choices # "empty" /\ r.message.tool_calls # << >>} :
       /\ nsFirst' = resp
       /\ nsBody' = [InjectTools(nsBody) EXCEPT
                       !.messages = Append(nsBody.messages, resp.message)]
  /\ nsSent' = Append(nsSent, InjectTools(nsBody))
  /\ nsOpen' = nsOpen \cup {1}
  /\ nsPos' = 1
  /\ nsPc' = "tools"
  /\ UNCHANGED <<main, pure, estv, parv, nsSecond, nsExecuted, nsReturn, nsReplies>>

NsDispatching == nsPc = "tools" /\ nsPos <= Len(nsFirst.message.tool_calls)

NsInvocation(tc) == [name |-> tc.name, args |-> ParseArgs(tc.arguments), id |-> tc.id]

\* streaming.py:432: the output when there is one, the whole result otherwise.
NsToolContent(r) == IF r.output # NoText THEN r.output ELSE JsonDumps(r)

\* streaming.py:423-438: one tool call is executed and answered.
NsExecTool ==
  /\ NsDispatching
  /\ LET tc == nsFirst.message.tool_calls[nsPos]
     IN /\ \E r \in {x \in ExecuteTool(tc.name, ParseArgs(tc.arguments)) : ~x.raised} :
             nsBody' = [nsBody EXCEPT !.messages =
                          Append(@, Message("tool", NsToolContent(r), NoText, << >>,
                                            tc.id))]
        /\ nsExecuted' = Append(nsExecuted, NsInvocation(tc))
  /\ nsPos' = nsPos + 1
  /\ UNCHANGED <<main, pure, estv, parv, nsPc, nsFirst, nsSecond, nsSent, nsOpen, nsReturn,
                 nsReplies>>

\* streaming.py:431: execute_tool raised, outside every try.
NsExecToolRaises ==
  /\ NsDispatching
  /\ LET tc == nsFirst.message.tool_calls[nsPos]
     IN /\ \E r \in ExecuteTool(tc.name, ParseArgs(tc.arguments)) :
             r.raised /\ nsReturn' = Raised(r.error)
        /\ nsExecuted' = Append(nsExecuted, NsInvocation(tc))
  /\ nsPc' = "returned"
  /\ UNCHANGED <<main, pure, estv, parv, nsBody, nsFirst, nsSecond, nsPos, nsSent, nsOpen,
                 nsReplies>>

\* streaming.py:441-442: the follow-up body; tool_choice stays.
NsFollowUpBody(b) == [b EXCEPT !.tools = "none"]

\* streaming.py:440-449: the follow-up request; its response is returned as
\* parsed, and closed once it was read.
NsFollowUp ==
  /\ nsPc = "tools"
  /\ nsPos > Len(nsFirst.message.tool_calls)
  /\ nsBody' = NsFollowUpBody(nsBody)
  /\ nsSent' = Append(nsSent, nsBody')
  /\ \E outcome \in UrlopenOutcomes, rd \in NsReadOutcomes, resp \in NsResponses :
       LET received == RequestChatCompletions(outcome)
       IN /\ received # "response" => (rd = "ok" /\ resp = RespPlain)
          /\ rd # "ok" => resp = RespPlain
          /\ nsOpen' = IF received = "response" /\ rd = "read_fails"
                       THEN nsOpen \cup {2} ELSE nsOpen
          /\ IF received = "response" /\ rd = "ok"
             THEN nsSecond' = resp /\ nsReturn' = Returned(resp)
             ELSE nsSecond' = nsSecond /\ nsReturn' = ReturnedError("follow_up_failed")
  /\ nsPc' = "returned"
  /\ UNCHANGED <<main, pure, estv, parv, nsFirst, nsPos, nsExecuted, nsReplies>>

Reply(status, resp, msg) == [status |-> status, response |-> resp, message |-> msg]

\* server.py:587-597: what the Gateway answers to what was returned.
GatewayReply(ret) ==
  IF ret.kind = "error" THEN Reply(502, NoResponse, ret.message)
  ELSE IF ret.response.error THEN Reply(502, NoResponse, "upstream_body")
  ELSE Reply(200, ret.response, "")

\* server.py:586-597: the Gateway answers; an exception of
\* handle_non_streaming leaves do_POST and nothing is answered.
NsReply ==
  /\ nsPc = "returned"
  /\ nsReplies' = IF nsReturn.kind = "raised" THEN nsReplies
                  ELSE Append(nsReplies, GatewayReply(nsReturn))
  /\ nsPc' = "replied"
  /\ UNCHANGED <<main, pure, estv, parv, nsBody, nsFirst, nsSecond, nsPos, nsSent, nsExecuted,
                 nsOpen, nsReturn>>

\* The bodies a client posts: with tools of its own or without.
InitNs ==
  /\ pc = "ns"
  /\ envMax = 0
  /\ initBudget = DefaultMaxIterations
  /\ Fresh
  /\ fragInput = << >>
  /\ fragPos = 0
  /\ fineBuf = << >>
  /\ coarseBuf = << >>
  /\ nsPc = "call"
  /\ nsBody \in {[messages |-> ms, tools |-> t, tool_choice |-> "none"] :
                   ms \in {<<UserMessage>>, <<UserMessage, UserMessage>>},
                   t \in {"none", "client"}}
  /\ nsFirst = NoResponse
  /\ nsSecond = NoResponse
  /\ nsPos = 0
  /\ nsSent = << >>
  /\ nsExecuted = << >>
  /\ nsOpen = {}
  /\ nsReturn = NoReturn
  /\ nsReplies = << >>
  /\ EstIdle
  /\ ParIdle

NextNs ==
  \/ NsFirstProxyError
  \/ NsFirstFails
  \/ NsFirstRaises
  \/ NsFirstPlain
  \/ NsFirstTools
  \/ NsExecTool
  \/ NsExecToolRaises
  \/ NsFollowUp
  \/ NsReply

SpecNs == InitNs /\ [][NextNs]_vars

(***************************************************************************)
(* The Usage Estimator taken alone (streaming.py:49-58): a text of up to   *)
(* MaxTextLen characters is estimated, and then the text one character     *)
(* longer.                                                                 *)
(***************************************************************************)
\* A text of n characters.
TextOfLen(n) == [i \in 1..n |-> "c"]

InitEst ==
  /\ pc = "est"
  /\ envMax = 0
  /\ initBudget = DefaultMaxIterations
  /\ Fresh
  /\ fragInput = << >>
  /\ fragPos = 0
  /\ fineBuf = << >>
  /\ coarseBuf = << >>
  /\ NsIdle
  /\ estText \in {TextOfLen(n) : n \in 0..MaxTextLen}
  /\ estValue = -1
  /\ estLonger = -1
  /\ ParIdle

\* _estimate_tokens(text).
EstimateText ==
  /\ pc = "est"
  /\ estValue = -1
  /\ estValue' = EstimateTokens(Len(estText))
  /\ UNCHANGED <<main, pure, nsv, parv, estText, estLonger>>

\* _estimate_tokens(text + "c").
EstimateLonger ==
  /\ pc = "est"
  /\ estValue # -1
  /\ estLonger = -1
  /\ estLonger' = EstimateTokens(Len(Append(estText, "c")))
  /\ UNCHANGED <<main, pure, nsv, parv, estText, estValue>>

NextEst ==
  \/ EstimateText
  \/ EstimateLonger

SpecEst == InitEst /\ [][NextEst]_vars

(***************************************************************************)
(* Two concurrent streaming requests.  ThreadingHTTPServer serves each     *)
(* request on a thread of its own (server.py:610-612), and the Gateway     *)
(* builds one StreamHandler per request (server.py:580): _headers_sent is  *)
(* an attribute of that instance, everything else of handle_streaming is   *)
(* local to its call, and the body is the one parsed from that request.    *)
(* The environment and the clock belong to the process.  The variables of  *)
(* handle_streaming hold the state of the request whose thread runs; a     *)
(* thread switch parks it and takes up the other request's.                *)
(***************************************************************************)
\* The state of the running request.
Snapshot ==
  [pc |-> pc, max_iterations |-> max_iterations, is_first |-> is_first,
   frame |-> frame, headers_sent |-> headers_sent, headerCalls |-> headerCalls,
   body |-> body, sent |-> sent, openResp |-> openResp, rids |-> rids,
   tool_call_buffer |-> tool_call_buffer, collected_content |-> collected_content,
   collected_reasoning |-> collected_reasoning,
   collected_tool_calls |-> collected_tool_calls, last_usage |-> last_usage,
   usage_emitted |-> usage_emitted, tool_results |-> tool_results, pos |-> pos,
   executed |-> executed, out |-> out, clientAlive |-> clientAlive,
   linesRead |-> linesRead, ended |-> ended, readLog |-> readLog, lost |-> lost,
   lastOpen |-> lastOpen]

\* The running request's state becomes st.
Resume(st) ==
  /\ pc' = st.pc
  /\ max_iterations' = st.max_iterations
  /\ is_first' = st.is_first
  /\ frame' = st.frame
  /\ headers_sent' = st.headers_sent
  /\ headerCalls' = st.headerCalls
  /\ body' = st.body
  /\ sent' = st.sent
  /\ openResp' = st.openResp
  /\ rids' = st.rids
  /\ tool_call_buffer' = st.tool_call_buffer
  /\ collected_content' = st.collected_content
  /\ collected_reasoning' = st.collected_reasoning
  /\ collected_tool_calls' = st.collected_tool_calls
  /\ last_usage' = st.last_usage
  /\ usage_emitted' = st.usage_emitted
  /\ tool_results' = st.tool_results
  /\ pos' = st.pos
  /\ executed' = st.executed
  /\ out' = st.out
  /\ clientAlive' = st.clientAlive
  /\ linesRead' = st.linesRead
  /\ ended' = st.ended
  /\ readLog' = st.readLog
  /\ lost' = st.lost
  /\ lastOpen' = st.lastOpen

\* Switch with one tool_call_buffer for both requests.
SwitchSharedBuffer ==
  /\ active \in {1, 2}
  /\ active' = 3 - active
  /\ parked' = Snapshot
  /\ Resume([parked EXCEPT !.tool_call_buffer = tool_call_buffer])
  /\ UNCHANGED <<envMax, initBudget, clock, pure, nsv, estv>>

\* The other request's thread runs.
Switch ==
  /\ active \in {1, 2}
  /\ active' = 3 - active
  /\ parked' = Snapshot
  /\ Resume(parked)
  /\ UNCHANGED <<envMax, initBudget, clock, pure, nsv, estv>>

\* A step of the running request.
RunActive ==
  /\ active \in {1, 2}
  /\ Next
  /\ linesRead' + parked'.linesRead <= MaxParLines

\* Two requests as the Gateway hands them to handle_streaming
\* (server.py:580-581), neither begun.
InitPar ==
  /\ pc = "call"
  /\ envMax = 0
  /\ initBudget = DefaultMaxIterations
  /\ Fresh
  /\ fragInput = << >>
  /\ fragPos = 0
  /\ fineBuf = << >>
  /\ coarseBuf = << >>
  /\ NsIdle
  /\ EstIdle
  /\ active = 1
  /\ parked = Snapshot

NextPar ==
  \/ RunActive
  \/ Switch

SpecPar == InitPar /\ [][NextPar]_vars

(***************************************************************************)
(* The bodies of clients.  The Gateway hands the parsed body to            *)
(* handle_streaming when it asks for a stream and to handle_non_streaming  *)
(* otherwise (server.py:557-597).  tools is "none" without the key,        *)
(* "empty" for an empty list and "client" for the client's own list;       *)
(* tool_choice is "none" without the key.                                  *)
(***************************************************************************)
ClientBodies ==
  {[messages |-> <<UserMessage>>, tools |-> t, tool_choice |-> c] :
     t \in {"none", "empty", "client"}, c \in {"none", "required"}}

\* The budget is the default, or 1 for a caller that allows one request.
InitInj ==
  /\ envMax = 0
  /\ initBudget \in {1, DefaultMaxIterations}
  /\ FreshHandler
  /\ fragInput = << >>
  /\ fragPos = 0
  /\ fineBuf = << >>
  /\ coarseBuf = << >>
  /\ nsFirst = NoResponse
  /\ nsSecond = NoResponse
  /\ nsPos = 0
  /\ nsSent = << >>
  /\ nsExecuted = << >>
  /\ nsOpen = {}
  /\ nsReturn = NoReturn
  /\ nsReplies = << >>
  /\ EstIdle
  /\ ParIdle
  /\ \E b \in ClientBodies :
       \/ /\ pc = "call"
          /\ body = b
          /\ nsPc = "idle"
          /\ nsBody = [messages |-> << >>, tools |-> "none", tool_choice |-> "none"]
       \/ /\ pc = "ns"
          /\ body = [messages |-> <<UserMessage>>, tools |-> "none", tool_choice |-> "none"]
          /\ nsPc = "call"
          /\ nsBody = b

NextInj ==
  \/ Next
  \/ NextNs

SpecInj == InitInj /\ [][NextInj]_vars

(***************************************************************************)
(* Properties.                                                             *)
(***************************************************************************)
\* What call fr wrote downstream, in order.
EventsOf(fr) == LET ByFrame(e) == e.frame = fr IN SelectSeq(out, ByFrame)

\* How many events of a kind call fr wrote.
CountOf(kind, fr) ==
  LET Is(e) == e.frame = fr /\ e.kind = kind IN Len(SelectSeq(out, Is))

IsEstimate(e) == e.kind = "usage" /\ e.estimated

\* What a step appended to out.
Appended == SubSeq(out', Len(out) + 1, Len(out'))

\* C1: one logical streaming request opens at most max_iterations upstream
\* requests: the override N when II_AI_MAX_TOOL_ITERATIONS is set, the
\* max_iterations of the outermost call (the default 10) otherwise.
C1_RequestsWithinBudget ==
  Len(sent) <= (IF envMax > 0 THEN envMax ELSE initBudget)

\* C2: when handle_streaming has ended with the client still writable, after
\* a no-tool completion, an upstream request failure, an exhausted budget or
\* an exception raised while reading, processing or running a tool, the last
\* thing written downstream is the [DONE] line.
C2_DoneWrittenLast ==
  (pc = "done" /\ clientAlive
     /\ ended \in {"complete", "upstream_error", "budget", "exception"})
    => (out # << >> /\ Last(out).kind = "done")

\* C3: over the whole continuation chain at most one [DONE] is written and
\* nothing is written after it; a turn with buffered tool calls does not
\* forward its [DONE] (only the call that ends the chain writes one), and the
\* final turn's [DONE] is written once.
C3_SingleDoneLast ==
  /\ \A i \in 1..Len(out) :
       out[i].kind = "done" => (i = Len(out) /\ pc = "done" /\ out[i].frame = frame)
  /\ (ended = "complete" /\ clientAlive) => CountOf("done", frame) = 1

C3_Witness ==
  /\ ended = "complete"
  /\ clientAlive
  /\ frame = 2
  /\ Last(out).kind = "done"
  /\ CountOf("tool_result", 1) = 1

\* C4: a call entered with an exhausted budget opens no upstream request,
\* runs no tool, and writes exactly a usage event with estimated = true and
\* completion_tokens = 0, then one error event naming the limit, then [DONE].
C4_ExhaustedBudget ==
  ended = "budget" =>
    /\ Len(sent) = frame - 1
    /\ \A i \in 1..Len(executed) : executed[i].frame # frame
    /\ clientAlive =>
         LET w == EventsOf(frame)
         IN /\ Len(w) = 3
            /\ IsEstimate(w[1]) /\ w[1].completion_tokens = 0
            /\ w[1].total_tokens = w[1].prompt_tokens
            /\ w[2].kind = "error" /\ w[2].message = "max_iterations"
            /\ w[3].kind = "done"

C4_Witness ==
  /\ ended = "budget"
  /\ clientAlive
  /\ frame = 3
  /\ Len(executed) = 2

\* C5: within one turn, from the chunk that carries a usage object on, no
\* usage event with estimated = true is written: not by the throttled
\* estimate, not around a tool execution, not before the continuation, not
\* as the final usage event.
C5_NoEstimateAfterUsage ==
  [][(/\ pc \in {"read", "tools"}
      /\ \/ last_usage.set /\ ~last_usage.estimated
         \/ last_usage'.set /\ ~last_usage'.estimated)
       => (/\ IsPrefix(out, out')
           /\ \A i \in 1..Len(Appended) : ~IsEstimate(Appended[i]))]_vars

C5_Witness ==
  /\ pc = "call"
  /\ frame = 2
  /\ clientAlive
  /\ last_usage.set /\ ~last_usage.estimated
  /\ CountOf("tool_result", 1) = 1
  /\ CountOf("continuation", 1) = 1

\* A turn (call fr) is over: it ended the request, or the call it made has
\* issued its request or ended.
TurnOver(fr) ==
  \/ frame > fr + 1
  \/ frame = fr + 1 /\ pc # "call"
  \/ frame = fr /\ pc = "done"

\* C7: a turn that ends with [DONE] and k >= 1 buffered calls with a name
\* writes k tool_execution events, k tool_result events and one continuation
\* event, and one further upstream request is issued, whose messages are the
\* previous ones, then one assistant message with the k tool_calls, then k
\* tool messages.
C7_ToolTurn ==
  \A fr \in 1..Len(sent) :
    (clientAlive /\ CountOf("tool_execution", fr) >= 1 /\ TurnOver(fr)) =>
      LET k == CountOf("tool_execution", fr)
      IN /\ CountOf("tool_result", fr) = k
         /\ CountOf("continuation", fr) = 1
         /\ Len(sent) >= fr + 1
         /\ LET prev == sent[fr].messages
                next == sent[fr + 1].messages
            IN /\ Len(next) = Len(prev) + 1 + k
               /\ IsPrefix(prev, next)
               /\ next[Len(prev) + 1].role = "assistant"
               /\ Len(next[Len(prev) + 1].tool_calls) = k
               /\ \A i \in 1..k : next[Len(prev) + 1 + i].role = "tool"

\* C8: along the continuation chain the message list only grows: the list
\* sent in request n + 1 has the list sent in request n as an unmodified
\* prefix, and so has the list the body holds now.
C8_MessagesOnlyGrow ==
  /\ \A n \in 1..(Len(sent) - 1) :
       IsPrefix(sent[n].messages, sent[n + 1].messages)
  /\ sent # << >> => IsPrefix(Last(sent).messages, body.messages)

C8_Witness ==
  /\ Len(sent) = 3
  /\ Len(sent[3].messages) > Len(sent[2].messages)
  /\ Len(sent[2].messages) > Len(sent[1].messages)

\* C9: at most one upstream response is open at any instant: the response of
\* the finished turn is closed when the recursive call is made.
C9_OneOpenResponse ==
  /\ Cardinality(openResp) <= 1
  /\ pc = "call" => openResp = {}

C9_Witness ==
  /\ pc = "read"
  /\ frame = 2
  /\ openResp = {2}

\* C10: when request_chat_completions raises ProxyError the call writes one
\* error event with the upstream message, immediately followed by [DONE],
\* forwards no raw line, runs no tool, and issues no further request.
C10_UpstreamError ==
  ended = "upstream_error" =>
    /\ Len(sent) = frame
    /\ \A i \in 1..Len(executed) : executed[i].frame # frame
    /\ CountOf("raw", frame) = 0
    /\ clientAlive =>
         LET w == EventsOf(frame)
         IN /\ CountOf("error", frame) = 1
            /\ CountOf("done", frame) = 1
            /\ Len(w) >= 2
            /\ w[Len(w)].kind = "done"
            /\ w[Len(w) - 1].kind = "error"
            /\ w[Len(w) - 1].message = "upstream"

C10_Witness ==
  /\ ended = "upstream_error"
  /\ clientAlive
  /\ frame = 2
  /\ Len(sent) = 2

\* C6: however finely the fragments of one index are split, the buffer entry
\* at [DONE] is the one their unsplit form yields: {id, name, args_str} are
\* the last non-empty id, the last non-empty name and the concatenation of
\* the argument substrings.  Two sequences that agree on these three have
\* the same unsplit form, hence the same entry.
C6_FragmentationInvariance ==
  fragPos = Len(fragInput) + 1 =>
    /\ fineBuf = coarseBuf
    /\ LET e == fineBuf[KeyPos(fineBuf, fragInput[1].index)]
       IN /\ e.id = LastNonEmpty([i \in 1..Len(fragInput) |-> fragInput[i].id])
          /\ e.name = LastNonEmpty([i \in 1..Len(fragInput) |-> fragInput[i].name])
          /\ e.args_str = ConcatArguments(fragInput)

C6_Witness ==
  /\ fragPos = Len(fragInput) + 1
  /\ Len(fragInput) = 3
  /\ fragInput[1].id = "a" /\ fragInput[2].id = "b" /\ fragInput[3].id = ""
  /\ fragInput[1].name = "f" /\ fragInput[3].name = ""
  /\ Len(fineBuf) = 2
  /\ fineBuf[2].id = "b"
  /\ fineBuf[2].args_str = <<"x", "y">>

\* The upstream lines call fr read, in order.
ReadLines(fr) ==
  LET ByFrame(x) == x.frame = fr
      mine == SelectSeq(readLog, ByFrame)
  IN [i \in 1..Len(mine) |-> mine[i].line]

\* The lines call fr forwarded, in order.
RawLines(fr) ==
  LET Raw(e) == e.frame = fr /\ e.kind = "raw"
      mine == SelectSeq(out, Raw)
  IN [i \in 1..Len(mine) |-> mine[i].line]

AnswersCalls(ms, tcs) ==
  /\ Len(ms) = Len(tcs)
  /\ \A i \in 1..Len(tcs) : ms[i].role = "tool" /\ ms[i].tool_call_id = tcs[i].id

\* C12: handle_non_streaming, once it is over with a first response parsed,
\* has made at most two upstream requests.  When the first response carried
\* tool calls, each was executed once, in order, and one follow-up request
\* was made whose body has no tools and whose messages are the original
\* ones, the assistant message and one tool message per call; what the
\* follow-up answered is returned as it is, its tool calls not executed.
\* When it carried none, it is returned as it is and no follow-up is made.
C12_NonStreaming ==
  (nsPc \in {"returned", "replied"} /\ nsFirst # NoResponse) =>
    LET tcs == nsFirst.message.tool_calls
    IN /\ Len(nsSent) <= 2
       /\ IF tcs # << >>
          THEN /\ nsExecuted = [i \in 1..Len(tcs) |-> NsInvocation(tcs[i])]
               /\ Len(nsSent) = 2
               /\ nsSent[2].tools = "none"
               /\ LET before == nsSent[1].messages
                      after == nsSent[2].messages
                  IN /\ Len(after) = Len(before) + 1 + Len(tcs)
                     /\ IsPrefix(before \o <<nsFirst.message>>, after)
                     /\ AnswersCalls(SubSeq(after, Len(before) + 2, Len(after)), tcs)
               /\ nsSecond # NoResponse => nsReturn = Returned(nsSecond)
          ELSE /\ nsReturn = Returned(nsFirst)
               /\ Len(nsSent) = 1
               /\ nsExecuted = << >>

\* C17: the Gateway answers a non-streaming request with exactly one JSON
\* body: 200 with the response, or 502 with an error message when the first
\* request or the follow-up failed; nothing leaves handle_non_streaming as
\* an exception.
C17_OneJsonReply ==
  nsPc = "replied" =>
    /\ nsReturn.kind # "raised"
    /\ Len(nsReplies) = 1
    /\ IF nsReturn.kind = "value" /\ ~nsReturn.response.error
       THEN nsReplies[1].status = 200 /\ nsReplies[1].response = nsReturn.response
       ELSE nsReplies[1].status = 502 /\ nsReplies[1].message # ""

\* C13: once the write of a forwarded line has failed, the read loop is
\* over: that line is the last one read and its write the last one tried
\* (no error event, no [DONE]), the call has run no tool and made no
\* further upstream request, and the upstream response is closed.
C13_ForwardFailureStops ==
  (\E i \in 1..Len(lost) : lost[i].kind = "raw") =>
    /\ pc = "done"
    /\ ended = "disconnect"
    /\ Last(lost).kind = "raw"
    /\ \A i \in 1..(Len(lost) - 1) : lost[i].kind # "raw"
    /\ Last(readLog) = [line |-> Last(lost).line, frame |-> frame]
    /\ \A i \in 1..Len(out) : out[i].frame = frame => out[i].kind \in {"raw", "usage"}
    /\ \A i \in 1..Len(executed) : executed[i].frame # frame
    /\ Len(sent) = frame
    /\ openResp = {}

C13_Witness ==
  /\ ended = "disconnect"
  /\ frame = 2
  /\ Len(executed) = 1
  /\ Len(lost) = 2
  /\ IsEstimate(lost[1])
  /\ lost[2].kind = "raw"

\* C14: a failed write cancels the turn wherever it happens, the tool
\* dispatch included: once a write has failed, no tool is executed, no
\* upstream request is made and no further write is tried.
C14_WriteFailureCancels ==
  [][lost # << >> => (executed' = executed /\ sent' = sent /\ lost' = lost)]_vars

\* C15: a buffered call that names a tool the executor does not know fails
\* alone.  The step that executes it records a result with success = false
\* and the unknown-tool error, writes the tool_result event with that result
\* and neither an error event nor [DONE], and leaves the loop where the next
\* buffered call, or else the continuation, comes next.
C15_UnknownToolIsPerCall ==
  [][(/\ Dispatching
      /\ tool_call_buffer[pos].name \notin KnownTools \cup {""}
      /\ executed' # executed)
       => LET e == tool_call_buffer[pos]
          IN /\ executed' = Append(executed, Invocation(e))
             /\ pc' = "tools" /\ pos' = pos + 1 /\ ended' = ""
             /\ e.key \in DOMAIN tool_results'
             /\ ~tool_results'[e.key].success
             /\ tool_results'[e.key].error = "unknown_tool"
             /\ clientAlive =>
                  /\ \E i \in 1..Len(Appended) :
                       /\ Appended[i].kind = "tool_result"
                       /\ Appended[i].result = tool_results'[e.key]
                  /\ \A i \in 1..Len(Appended) :
                       Appended[i].kind \notin {"error", "done"}]_vars

\* The unknown tool was called first, the next buffered call was executed
\* after it, and the continuation followed.
C15_Witness ==
  /\ pc = "call"
  /\ frame = 2
  /\ clientAlive
  /\ Len(executed) = 2
  /\ executed[1].name = "nope"
  /\ executed[2].name = "run_shell_command"
  /\ CountOf("tool_result", 1) = 2
  /\ CountOf("continuation", 1) = 1
  /\ CountOf("error", 1) = 0

\* C16: all the events of one logical request that carry a request_id carry
\* the same one, in the first turn and in every continuation turn.
C16_OneRequestId ==
  \A i, j \in 1..Len(out) :
    (out[i].rid # -1 /\ out[j].rid # -1) => out[i].rid = out[j].rid

\* C18: whatever fails in request_chat_completions, its caller receives a
\* ProxyError and no other exception.
C18_OnlyProxyError ==
  lastOpen.outcome \in UrlopenOutcomes \ {"response"}
    => lastOpen.received = "ProxyError"

\* The least q with q * d >= n.
CeilDiv(n, d) == CHOOSE q \in 0..n : q * d >= n /\ (q = 0 \/ (q - 1) * d < n)

\* C19: the estimate of the empty text is 0, that of a text of n > 0
\* characters is max(1, ceil(n / 4)), and a longer text never has a smaller
\* estimate.
C19_Estimate ==
  /\ estValue # -1 =>
       estValue = IF estText = NoText THEN 0
                  ELSE Max(1, CeilDiv(Len(estText), 4))
  /\ estLonger # -1 => estLonger >= estValue

C19_Witness ==
  /\ Len(estText) = 9
  /\ estValue = 3
  /\ estLonger = 3

C21_EveryLineForwarded ==
  clientAlive => \A fr \in 1..frame : RawLines(fr) = ReadLines(fr)

\* C22: a data line whose payload is not JSON is passed over: the step that
\* reads it leaves the collected content and reasoning, the buffer and the
\* recorded usage as they were and, the client writable, writes the line
\* and nothing else (no error event) and stays in the read loop.
C22_MalformedLineSkipped ==
  [][(/\ Len(readLog') = Len(readLog) + 1
      /\ Last(readLog').line.t = "bad")
       => /\ UNCHANGED <<collected_content, collected_reasoning, tool_call_buffer,
                         last_usage>>
          /\ clientAlive =>
               /\ Appended = <<RawEvent(Last(readLog').line, frame)>>
               /\ pc' = "read"
               /\ ended' = ""]_vars

\* After content was collected, a line that is not JSON was read and the
\* turn went on to its end.
C22_Witness ==
  /\ ended = "complete"
  /\ clientAlive
  /\ Len(readLog) = 2
  /\ readLog[1].line.content # NoText
  /\ readLog[2].line.t = "bad"
  /\ collected_content # NoText

\* C23: the buffered calls of a turn are executed in increasing order of
\* their fragment index, in whatever order the indices first appeared.
C23_IndexOrder ==
  \A i, j \in 1..Len(executed) :
    (i < j /\ executed[i].frame = executed[j].frame)
      => executed[i].key < executed[j].key

\* The tool_execution, tool_result and continuation events call fr wrote.
ToolEventsOf(fr) ==
  LET Is(e) == e.frame = fr /\ e.kind \in {"tool_execution", "tool_result", "continuation"}
  IN SelectSeq(out, Is)

\* The calls of execute_tool call fr made.
ExecutedBy(fr) == LET ByFrame(x) == x.frame = fr IN SelectSeq(executed, ByFrame)

\* What was written for a turn follows what the turn did.
OrderedTurn(fr) ==
  LET w == EventsOf(fr)
      t == ToolEventsOf(fr)
      x == ExecutedBy(fr)
      Exec(e) == e.kind = "tool_execution"
      starts == SelectSeq(t, Exec)
  IN /\ \A i, j \in 1..Len(w) :
          (i < j /\ w[i].kind \in {"tool_execution", "tool_result", "continuation"})
            => w[j].kind # "raw"
     /\ \A k \in 1..Len(t) :
          /\ t[k].kind = "tool_result" =>
               k > 1 /\ t[k - 1].kind = "tool_execution" /\ t[k - 1].call = t[k].call
          /\ (t[k].kind = "tool_execution" /\ k > 1) => t[k - 1].kind = "tool_result"
          /\ t[k].kind = "continuation" =>
               k = Len(t) /\ (k > 1 => t[k - 1].kind = "tool_result")
     /\ Len(starts) = Len(x)
     /\ \A k \in 1..Len(x) :
          starts[k].call = [id |-> x[k].id, name |-> x[k].name, args |-> x[k].args]
     /\ Len(sent) > fr => CountOf("continuation", fr) = 1

\* C24: while the client is writable, what is written in a tool turn is in
\* the order of what happens.  The raw lines come before the first
\* tool_execution event; each call's tool_execution event is the first
\* thing its step writes, its tool_result event follows and comes before
\* the next call's tool_execution event; the continuation event comes after
\* the last tool_result and is there when the next request is made.
C24_EmissionOrder ==
  /\ [](clientAlive => \A fr \in 1..frame : OrderedTurn(fr))
  /\ [][(clientAlive /\ executed' # executed)
          => (/\ Appended # << >>
              /\ Appended[1].kind = "tool_execution"
              /\ Appended[1].call.id = Last(executed').id)]_vars

\* Two calls were executed, everything was written, and the next request
\* was made.
C24_Witness ==
  /\ clientAlive
  /\ frame = 2
  /\ pc = "read"
  /\ CountOf("raw", 1) = 2
  /\ Len(ExecutedBy(1)) = 2
  /\ Len(ToolEventsOf(1)) = 5

\* C25: the HTTP headers are sent at most once for one streaming request,
\* and the call that sends them is the outermost one, before any upstream
\* request was made; a continuation never sends them.
C25_HeadersOnce ==
  /\ [](headerCalls <= 1)
  /\ [][headerCalls' # headerCalls => (is_first /\ frame = 1 /\ sent = << >>)]_vars

\* A continuation made its upstream request and the headers were sent once.
C25_Witness == headerCalls = 1 /\ frame = 2 /\ ~is_first /\ Len(sent) = 2

\* What the first upstream request carries for the body b of the client.
FirstRequestOf(b, first) ==
  IF b.tools \in {"none", "empty"}
  THEN first.tools = "default" /\ first.tool_choice = "auto"
  ELSE first.tools = b.tools /\ first.tool_choice = b.tool_choice

\* C26: in handle_streaming and in handle_non_streaming alike, the first
\* upstream request carries the default tools and tool_choice "auto" exactly
\* when the body of the client has no tools or an empty list, and carries the
\* tools and the tool_choice of the client otherwise.
C26_InjectionOptOut ==
  [][/\ (sent = << >> /\ sent' # << >>) => FirstRequestOf(body, sent'[1])
     /\ (nsSent = << >> /\ nsSent' # << >>) => FirstRequestOf(nsBody, nsSent'[1])]_vars

\* A streaming request went upstream with the client's own tools and
\* tool_choice.
C26_Witness ==
  /\ pc = "read"
  /\ frame = 1
  /\ Len(sent) = 1
  /\ sent[1].tools = "client"
  /\ sent[1].tool_choice = "required"

\* C27: a buffered call whose argument string is no JSON, the empty string
\* included, is executed with {}: the executor is invoked with {}, the
\* tool_execution event carries args {}, the call gets a result and the
\* dispatch goes on.
C27_BadArgsAreEmptyObject ==
  [][(/\ executed' # executed
      /\ ~JsonLoads(tool_call_buffer[pos].args_str).ok)
       => /\ Last(executed').args = EmptyObject
          /\ Last(executed').key = tool_call_buffer[pos].key
          /\ clientAlive =>
               /\ Appended[1].kind = "tool_execution"
               /\ Appended[1].call.args = EmptyObject
          /\ tool_call_buffer[pos].key \in DOMAIN tool_results'
          /\ pc' = "tools"
          /\ ended' = ""]_vars

\* A call whose argument string is text that is no JSON was executed and has
\* its result.
C27_Witness ==
  /\ pc = "tools"
  /\ clientAlive
  /\ \E j \in 1..Len(tool_call_buffer) :
       /\ tool_call_buffer[j].args_str # NoText
       /\ ~JsonLoads(tool_call_buffer[j].args_str).ok
       /\ tool_call_buffer[j].key \in DOMAIN tool_results
  /\ executed # << >>
  /\ Last(executed).args = EmptyObject

\* The tool messages the continuation of a turn appends after the assistant
\* message.
NewToolMessages ==
  SubSeq(body'.messages, Len(body.messages) + 2, Len(body'.messages))

\* C28: when a tool turn continues, the conversation gets one tool message
\* per executed call, in execution order: its tool_call_id is the id of the
\* call, its content is the output of the result when success is true and
\* the JSON serialization of the whole result when success is false.
C28_ToolMessages ==
  [][(pc = "tools" /\ pc' = "call")
       => LET x == ExecutedBy(frame)
              new == NewToolMessages
          IN /\ Len(new) = Len(x)
             /\ \A k \in 1..Len(x) :
                  LET r == tool_results[x[k].key]
                  IN /\ new[k].role = "tool"
                     /\ new[k].tool_call_id = x[k].id
                     /\ r.success => new[k].content = r.output
                     /\ ~r.success => new[k].content = JsonDumps(r)]_vars

\* The follow-up request of a turn with a successful and a failed call
\* carries the output of the one and the serialized result of the other.
C28_Witness ==
  /\ Len(sent) = 2
  /\ \E i, j \in 1..Len(sent[2].messages) :
       /\ sent[2].messages[i].role = "tool"
       /\ sent[2].messages[i].tool_call_id = "call_a"
       /\ sent[2].messages[i].content = <<"o", "k">>
       /\ sent[2].messages[j].role = "tool"
       /\ sent[2].messages[j].tool_call_id = "call_b"
       /\ sent[2].messages[j].content = JsonDumps(Result(FALSE, FALSE, NoText, "unknown_tool"))

\* A line of call fr carried a usage object.
UsageReported(fr) ==
  \E i \in 1..Len(readLog) : readLog[i].frame = fr /\ readLog[i].line.usage

\* C29: a turn that ends at [DONE] without tool calls, the client writable,
\* wrote one [DONE] line and directly before it a usage event: the values of
\* the upstream with estimated false when a line of the turn reported usage,
\* else the estimate of the serialized messages as prompt_tokens, the
\* estimate of reasoning and content together as completion_tokens, their
\* sum as total_tokens, and estimated true.
C29_FinalUsage ==
  (ended = "complete" /\ clientAlive)
    => LET w == EventsOf(frame)
           n == Len(w)
       IN /\ n >= 2
          /\ w[n].kind = "done"
          /\ CountOf("done", frame) = 1
          /\ w[n - 1].kind = "usage"
          /\ w[n - 1].rid = rids[frame]
          /\ IF UsageReported(frame)
             THEN /\ ~w[n - 1].estimated
                  /\ w[n - 1].prompt_tokens = UpstreamUsage.prompt_tokens
                  /\ w[n - 1].completion_tokens = UpstreamUsage.completion_tokens
                  /\ w[n - 1].total_tokens = UpstreamUsage.total_tokens
             ELSE /\ w[n - 1].estimated
                  /\ w[n - 1].prompt_tokens =
                       EstimateTokens(JsonLen(sent[frame].messages))
                  /\ w[n - 1].completion_tokens =
                       EstimateTokens(Len(collected_reasoning \o collected_content))
                  /\ w[n - 1].total_tokens =
                       w[n - 1].prompt_tokens + w[n - 1].completion_tokens

\* A turn with content and reported usage ended at [DONE].
C29_Witness ==
  /\ ended = "complete"
  /\ clientAlive
  /\ frame = 1
  /\ collected_content # NoText
  /\ UsageReported(1)
  /\ Len(EventsOf(1)) >= 4

\* Within a turn the buffer keeps its entries and their argument text, and
\* content, reasoning and usage keep what they hold.
TurnStateGrows ==
  /\ Len(tool_call_buffer') >= Len(tool_call_buffer)
  /\ \A i \in 1..Len(tool_call_buffer) :
       /\ tool_call_buffer'[i].key = tool_call_buffer[i].key
       /\ IsPrefix(tool_call_buffer[i].args_str, tool_call_buffer'[i].args_str)
  /\ IsPrefix(collected_content, collected_content')
  /\ IsPrefix(collected_reasoning, collected_reasoning')
  /\ last_usage.set => last_usage' = last_usage

\* A line call fr read carried a fragment of index k.
FragmentRead(fr, k) ==
  \E i \in 1..Len(readLog) :
    /\ readLog[i].frame = fr
    /\ \E n \in 1..Len(readLog[i].line.tool_calls) : readLog[i].line.tool_calls[n].index = k

\* A buffered call is executed at most once in its turn, and a turn executes
\* only calls whose fragments it read itself.
ExecutedOnce ==
  /\ \A i, j \in 1..Len(executed) :
       (i < j /\ executed[i].frame = executed[j].frame)
         => executed[i].key # executed[j].key
  /\ \A i \in 1..Len(executed) : FragmentRead(executed[i].frame, executed[i].key)

\* A request that opens its stream starts empty, a step within a turn only
\* adds, and an execution is that of the buffer entry the dispatch is at.
TurnStep ==
  /\ (sent' # sent /\ pc' = "read")
       => /\ tool_call_buffer' = << >>
          /\ collected_content' = NoText
          /\ collected_reasoning' = NoText
          /\ last_usage' = NoUsage
  /\ (sent' = sent /\ frame' = frame) => TurnStateGrows
  /\ (executed' # executed)
       => /\ pc = "tools"
          /\ Len(executed') = Len(executed) + 1
          /\ Last(executed').frame = frame
          /\ Last(executed').key = tool_call_buffer[pos].key

\* C30: the buffer, the collected content and reasoning and the recorded
\* usage belong to one turn.  A new upstream request that opens its stream
\* starts with all four empty; within the turn they only grow; a buffered
\* call is executed at most once in its turn, and a turn executes only calls
\* whose fragments it read itself, never those of a turn before.
C30_TurnScoped == []ExecutedOnce /\ [][TurnStep]_vars

\* The second turn filled its own buffer after the first had collected
\* content and a call, and executed only its own call.
C30_Witness ==
  /\ frame = 2
  /\ pc = "tools"
  /\ Len(executed) = 2
  /\ executed[1].frame = 1
  /\ executed[2].frame = 2
  /\ executed[1].key # executed[2].key
  /\ Len(tool_call_buffer) = 1

\* What merging the fragment tc may change of the buffer old.
MergedOnly(old, new, tc) ==
  /\ Len(new) = (IF HasKey(old, tc.index) THEN Len(old) ELSE Len(old) + 1)
  /\ HasKey(new, tc.index)
  /\ \A i \in 1..Len(old) :
       /\ new[i].key = old[i].key
       /\ old[i].key # tc.index => new[i] = old[i]
       /\ tc.id = "" => new[i].id = old[i].id
       /\ tc.name = "" => new[i].name = old[i].name
       /\ IsPrefix(old[i].args_str, new[i].args_str)

\* C31: merging one fragment changes only the buffer entry of the
\* fragment's index: the entries of other indices stay as they are, a
\* fragment without id (without name) leaves the recorded id (name), and
\* the recorded argument string is only extended at its end.
C31_MergeFrame ==
  [][fineBuf' # fineBuf => MergedOnly(fineBuf, fineBuf', fragInput[fragPos + 1])]_vars

\* Three fragments of index 0 were merged next to the entry of index 1: the
\* later ones carried no id and no name, and the arguments grew twice.
C31_Witness ==
  /\ pc = "frag"
  /\ Len(fragInput) = 3
  /\ fragPos = 3
  /\ Len(fineBuf) = 2
  /\ fineBuf[1] = OtherEntry
  /\ fragInput[1].id = "a"
  /\ fragInput[2].id = ""
  /\ fragInput[3].name = ""
  /\ fineBuf[2].id = "a"
  /\ fineBuf[2].name = "f"
  /\ Len(fineBuf[2].args_str) = 2

\* C32: when the upstream stream ends before a [DONE] line was read and the
\* client is still connected, the request ends with [DONE] written
\* downstream, and every named call buffered in the turn was executed or an
\* error event tells the client of it.
C32_EofStillTerminates ==
  (ended = "eof" /\ clientAlive)
    => /\ Len(EventsOf(frame)) > 0
       /\ Last(EventsOf(frame)).kind = "done"
       /\ \A i \in 1..Len(tool_call_buffer) :
            tool_call_buffer[i].name # ""
              => \/ \E k \in 1..Len(executed) :
                      /\ executed[k].frame = frame
                      /\ executed[k].key = tool_call_buffer[i].key
                 \/ CountOf("error", frame) > 0

\* C33: a JSON chunk without choices[0] (a usage-only chunk with choices =
\* []) does not end the turn: its usage is recorded, and with the client
\* writable the line is forwarded as it is, no error event is written, and
\* the loop goes on reading.
C33_ChunkWithoutChoices ==
  [][(/\ Len(readLog') = Len(readLog) + 1
      /\ Last(readLog').line.t = "chunk"
      /\ ~Last(readLog').line.choices)
       => /\ last_usage' = CaptureUsage(Last(readLog').line, last_usage)
          /\ clientAlive =>
               /\ Appended # << >>
               /\ Last(Appended) = RawEvent(Last(readLog').line, frame)
               /\ \A i \in 1..Len(Appended) : Appended[i].kind # "error"
               /\ pc' = "read"
               /\ ended' = ""]_vars

\* The events of one kind call fr wrote.
KindEventsOf(kind, fr) ==
  LET Is(e) == e.frame = fr /\ e.kind = kind IN SelectSeq(out, Is)

\* The assistant message and the tool messages of a continuation agree.
Corresponding(asst, tms) ==
  /\ asst.role = "assistant"
  /\ Len(asst.tool_calls) = Len(tms)
  /\ \A i \in 1..Len(tms) :
       /\ tms[i].role = "tool"
       /\ tms[i].tool_call_id = asst.tool_calls[i].id
  /\ clientAlive =>
       /\ Len(KindEventsOf("tool_execution", frame)) = Len(tms)
       /\ Len(KindEventsOf("tool_result", frame)) = Len(tms)
       /\ \A i \in 1..Len(tms) :
            /\ KindEventsOf("tool_execution", frame)[i].call.id = tms[i].tool_call_id
            /\ KindEventsOf("tool_result", frame)[i].call.id = tms[i].tool_call_id

\* C34: in every continuation the tool_calls of the appended assistant
\* message and the appended tool messages correspond one to one in the same
\* order: the i-th tool message answers the id of the i-th tool_call, which
\* is the id the tool_execution and tool_result events of that call carry.
C34_CallsAndAnswers ==
  [][(pc = "tools" /\ pc' = "call")
       => Corresponding(body'.messages[Len(body.messages) + 1], NewToolMessages)]_vars

\* A continuation with two calls went upstream: two tool_calls and two tool
\* messages with the same two different ids.
C34_Witness ==
  /\ Len(sent) = 2
  /\ Len(sent[2].messages) = 4
  /\ Len(sent[2].messages[2].tool_calls) = 2
  /\ sent[2].messages[2].tool_calls[1].id # sent[2].messages[2].tool_calls[2].id
  /\ sent[2].messages[3].tool_call_id = sent[2].messages[2].tool_calls[1].id
  /\ sent[2].messages[4].tool_call_id = sent[2].messages[2].tool_calls[2].id

\* C35: a turn continues only after it executed a tool: the conversation
\* of every follow-up request got at least one new tool message, and the
\* assistant message it got has a tool_calls list that is not empty.
C35_ContinuationNeedsTool ==
  [][(pc = "tools" /\ pc' = "call")
       => /\ Len(NewToolMessages) >= 1
          /\ body'.messages[Len(body.messages) + 1].tool_calls # << >>
          /\ \E k \in 1..Len(executed) : executed[k].frame = frame]_vars

\* C36: the executor is only invoked with an object: whatever JSON value
\* the argument string of a buffered call parses to, the value passed to
\* execute_tool and reported in the tool_execution event is an object, and
\* the call does not end the turn with an exception.
C36_ArgsAreObject ==
  /\ \A k \in 1..Len(executed) : executed[k].args.type = "object"
  /\ \A i \in 1..Len(out) :
       out[i].kind = "tool_execution" => out[i].call.args.type = "object"
  /\ (ended = "exception" /\ executed # << >> /\ Last(executed).frame = frame)
       => Last(executed).key \in DOMAIN tool_results

\* C37: every upstream response a handler opened is closed when the
\* handler has returned or raised: none of handle_streaming's is open once
\* the logical request is over, none of handle_non_streaming's once it has
\* returned.
C37_AllResponsesClosed ==
  /\ pc = "done" => openResp = {}
  /\ nsPc \in {"returned", "replied"} => nsOpen = {}

\* C38: nothing of the SSE body (event, raw line, [DONE]) is written, or
\* tried to be written, before the HTTP headers were sent, whatever the
\* budget of the outermost call.
C38_HeadersBeforeBody ==
  (out # << >> \/ lost # << >>) => (headers_sent /\ headerCalls = 1)

\* The request ids a request has put into its events so far.
IdsOf(ids) == {ids[i] : i \in 1..Len(ids)}

\* C39: two streaming requests that are in progress at the same time never
\* carry the same request_id in their events.
C39_DistinctRequestIds ==
  (active \in {1, 2} /\ pc # "done" /\ parked.pc # "done")
    => IdsOf(rids) \cap IdsOf(parked.rids) = {}

=============================================================================
